---- MODULE Spec2Model ----
(***************************************************************************)
(* State-machine model of ThreeCanvasComponent                             *)
(* (src/src/app/three-canvas/three-canvas.ts): the frame clock and pause   *)
(* controller, the meteor spawner and cull pass, the star field            *)
(* regeneration, the resize handler and the teardown, together with the    *)
(* host's frame scheduler and the disposable GPU resources.                *)
(*                                                                         *)
(* Representation.  All times are integers in milliseconds: the wall clock *)
(* (performance.now()), and also the quantities the code holds in seconds  *)
(* (effectiveTime, pausedTime, birth, lifetime, lastMeteorSpawn,           *)
(* nextMeteorDelay, spawnDelay, deltaSeconds), so "x * 0.001" and          *)
(* "x * 1000" are changes of unit on the same integer.  A handler runs to  *)
(* completion at one clock reading.  Math.random() is a choice from a      *)
(* small set.  A GPU resource is a pair <<kind, n>>; gpu maps every        *)
(* resource allocated so far to the number of dispose() calls made on it.  *)
(*                                                                         *)
(* The earlier variant of the component (src/unnamed/part_001, lines       *)
(* 304-653) is modelled on the same state, with its own initialisation,    *)
(* frame loop, pause toggle and guarded focus tween (the ...Earlier        *)
(* actions of SpecEarlier); isAnimating is a field of that variant only.   *)
(***************************************************************************)
EXTENDS Integers, Sequences, FiniteSets, TLC

\* ------------------------------------------------------------------ bounds
LoadTime == 1000
\* wall clock (ms) when the component is constructed

Horizon == 3000
\* wall time (ms) explored after construction

MaxStarFields == 3
\* star geometries allocated in one run

MaxTweens == 1
\* focus tweens running at once

ShortHorizon == 600
\* wall time (ms) explored by the specifications that need no expiry

ClockHorizon == 700
\* wall time (ms) explored by the clock's specification

SpawnHorizon == 600
\* wall time (ms) explored by the spawn scheduler's specification

ScenarioHorizon == 1200
\* wall time (ms) explored by the fixed-delay scenario

FullHorizon == 400
\* wall time (ms) explored by the specification of every operation

PausedHorizon == 3000
\* wall time (ms) explored by the specification of paused frames

ExpiryHorizon == 3000
\* wall time (ms) explored by the meteor expiry's specification

EarlierHorizon == 1500
\* wall time (ms) explored by the earlier variant's specification

TweenHorizon == 700
\* wall time (ms) explored by the focus tween's specification

MotionHorizon == 650
\* wall time (ms) explored by the specification of the integration step

ShortSteps == {50, 150}
\* wall time between two events when frames are dense or stall (ms)

TimeSteps == {100, 200}
\* wall time between two events (ms)

TweenSteps == {200, 300}
\* wall time between two events while a tween runs (ms)

LongSteps == {500}
\* wall time between two events when frames are sparse (ms)

Lifetimes == {1500, 2400}
\* samples of randRange(1.5, 2.5) s

Jitters == {80, 100, 119}
\* samples of randRange(0.8, 1.2), in percent

Speeds == {2, 5}
\* speed slider values

SpawnDelays == {0 - 100, 0, 300, 2000}
\* spawn-delay slider values (ms)

Densities == {0 - 5, 0, 500, 2000, 20001}
\* density slider values

InitialViewport == <<800, 600>>
\* container size (clientWidth, clientHeight) at construction

Viewports == {<<800, 600>>, <<1920, 1080>>}
\* container sizes after a resize

DevicePixelRatios == {1, 3}
\* window.devicePixelRatio

\* --------------------------------------------------------- program constants
MaxStars == 20000
MaxDelta == 100
TweenDuration == 600
TargetZ == 30000
InitialCameraZ == 60000
InitialDensity == 2000
InitialSpeed == 2
InitialSpawnDelay == 300
InitialNextMeteorDelay == 350
UnfocusedZ == 60000
MaxPixelRatio == 2

VARIABLES
  now,              \* performance.now()
  vsync,            \* the display has refreshed since the last frame ran
  lifecycle,        \* "constructed", "live" or "destroyed"
  listening,        \* the window resize listener is registered
  rafQueue,         \* callbacks requested for the next frame, in order
  rafRun,           \* callbacks of the frame being run, in order
  frameId,          \* this.frameId (0 = null)
  startTime,
  pausedTime,
  paused,
  lastFrameTimeMs,
  speed,
  density,
  isFocused,
  isAnimating,      \* earlier variant: a focus tween is running
  spawnDelay,
  lastMeteorSpawn,
  nextMeteorDelay,
  uTime,            \* uniforms.uTime.value
  uSpeed,           \* uniforms.uSpeed.value
  stars,            \* <<>> (undefined) or <<[geo, count, seeds, angle]>>
  earth,            \* <<>> or <<[rotX, rotY, posT]>>
  moon,             \* <<>> or <<[rotY, posT]>>
  meteors,          \* sequence of [id, birth, lifetime, moved, opacity]
  trailPlaneGeo,    \* the shared trail geometry exists
  meteorBaseMaterial, \* the base meteor material exists
  scene,            \* objects in the scene
  gpu,              \* resource -> number of dispose() calls
  viewport,         \* container's clientWidth, clientHeight
  dpr,              \* window.devicePixelRatio
  densityInput,     \* the value of the density slider, passed to updateDensity
  aspect,           \* camera.aspect as a reduced fraction <<num, den>>
  cameraZ,          \* camera.position.z, in 1/1000
  rendererSize,     \* renderer size
  pixelRatio,       \* renderer pixel ratio
  rendered,         \* number of star fields drawn by the last render
  pc                \* "idle", or the position inside createStars

hostVars == <<now, vsync, viewport, dpr, densityInput>>
rafVars == <<rafQueue, rafRun, frameId>>
clockVars == <<startTime, pausedTime, paused, lastFrameTimeMs>>
spawnVars == <<spawnDelay, lastMeteorSpawn, nextMeteorDelay>>
uiVars == <<speed, density, isFocused, isAnimating>>
uniformVars == <<uTime, uSpeed>>
bodyVars == <<earth, moon>>
meteorVars == <<meteors, trailPlaneGeo, meteorBaseMaterial>>
cameraVars == <<aspect, cameraZ, rendererSize, pixelRatio>>
vars == <<hostVars, lifecycle, listening, rafVars, clockVars, spawnVars,
          uiVars, uniformVars, stars, bodyVars, meteorVars, scene, gpu,
          cameraVars, rendered, pc>>

\* ------------------------------------------------------------------ helpers
Min(a, b) == IF a < b THEN a ELSE b

Max(a, b) == IF a > b THEN a ELSE b

RECURSIVE Gcd(_, _)
Gcd(a, b) == IF b = 0 THEN a ELSE Gcd(b, a % b)

\* h / w
RatioInverted(w, h) == <<h \div Gcd(w, h), w \div Gcd(w, h)>>

\* w / h
Ratio(w, h) == <<w \div Gcd(w, h), h \div Gcd(w, h)>>

\* resources and scene objects
StarGeo(k) == <<"starGeo", k>>
StarMat == <<"starMat", 0>>
TrailGeo == <<"trailGeo", 0>>
MeteorBaseMat == <<"meteorBaseMat", 0>>
MeteorMat(n) == <<"meteorMat", n>>
StarsObj(k) == <<"stars", k>>
MeteorObj(n) == <<"meteor", n>>

Allocate(g, rs) == [r \in (DOMAIN g) \cup rs |-> IF r \in DOMAIN g THEN g[r] ELSE 0]

Dispose(g, r) == [g EXCEPT ![r] = @ + 1]

CountKind(g, kind) == Cardinality({r \in DOMAIN g : r[1] = kind})


\* --------------------------------------------------------- host frame scheduler
Handles(q) == {q[i].h : i \in 1..Len(q)}

\* requestAnimationFrame returns a handle no pending callback holds
NewHandle(q) == CHOOSE n \in 1..(Len(q) + Len(rafRun) + 2) : n \notin Handles(q) \cup Handles(rafRun) \cup {frameId}

AnimateCallback(h) == [h |-> h, fn |-> "animate", startZ |-> 0, t0 |-> 0]

TickCallback(h, z, t) == [h |-> h, fn |-> "tick", startZ |-> z, t0 |-> t]

\* a request that registers the callback twice
RequestAnimationFrameTwice(q, cb) == Append(Append(q, cb), cb)

RequestAnimationFrame(q, cb) == Append(q, cb)

\* a cancellation that leaves the callback pending
CancelAnimationFrameIgnored(q, h) == q

CancelAnimationFrame(q, h) == SelectSeq(q, LAMBDA cb : cb.h # h)

\* ------------------------------------------------------------------ clock
\* an effective time that keeps running while paused
EffectiveTimeRunning == now - startTime

\* line 290: paused ? pausedTime : (now - startTime) * 0.001
EffectiveTime == IF paused THEN pausedTime ELSE now - startTime

\* line 417: the value captured on pause
PauseCapture == now - startTime

\* a resume that restarts the clock at the resume instant
ResumeStartReset == now

\* line 420: the start time recomputed on resume
ResumeStart == now - pausedTime

\* a body and meteor update that also runs while paused
MovingAlways == TRUE

\* lines 299 and 357: if (!this.paused)
Moving == ~paused

\* a delta that is not clamped
DeltaSecondsUnclamped == IF ~paused THEN now - lastFrameTimeMs ELSE 0

\* lines 334-341
DeltaSeconds == IF ~paused THEN Min(MaxDelta, now - lastFrameTimeMs) ELSE 0

\* ------------------------------------------------------------------ stars
\* line 126
SafeCount(count) == Max(0, Min(MaxStars, count))

\* a clamp with min and max exchanged
ClampDensitySwapped(nv) == Min(0, Max(MaxStars, nv))

\* line 409
ClampDensity(nv) == Max(0, Min(MaxStars, nv))

\* a field built without points
NewStarsEmpty(k, count) == [geo |-> k, positions |-> 0, seeds |-> 0, angle |-> 0]

\* lines 135-154: the new field; k numbers the geometry
NewStars(k, count) == [geo |-> k, positions |-> 3 * SafeCount(count), seeds |-> SafeCount(count), angle |-> 0]

\* lines 300-313: every point rotated about the y axis by speed * 0.0002 rad
RotateStars(st) == IF st = <<>> THEN st ELSE <<[st[1] EXCEPT !.angle = @ + speed]>>

\* lines 315-319: rotations in 0.0002 rad; posT is the time the bob is evaluated at
AdvanceEarth(e, t) == IF e = <<>> THEN e ELSE <<[rotX |-> e[1].rotX + 20 + speed, rotY |-> e[1].rotY + 50 + 2 * speed, posT |-> t]>>

\* lines 321-325: rotation in 0.00002 rad; posT is the time the orbit is evaluated at
AdvanceMoon(m, t) == IF m = <<>> THEN m ELSE <<[rotY |-> m[1].rotY + 300 + 9 * speed, posT |-> t]>>

\* ------------------------------------------------------------------ meteors
\* a spawn check that already fires when the delay has just elapsed
ShouldSpawnAtDelay(timeSec) == timeSec - lastMeteorSpawn >= nextMeteorDelay

\* line 345
ShouldSpawn(timeSec) == timeSec - lastMeteorSpawn > nextMeteorDelay

\* line 348: spawnDelay * randRange(0.8, 1.2), jit in percent
RedrawDelay(jit) == (spawnDelay * jit) \div 100

\* a fade over the longest lifetime a meteor can have, 2.5 s
FadeOverMaxLifetime(age, lifetime) == 1000 - Min(1000, (age * 1000) \div 2500)

\* lines 364-366: 1 - min(1, age / lifetime), in 1/1000
Fade(age, lifetime) == 1000 - Min(1000, (age * 1000) \div lifetime)

\* an expiry at twice the lifetime
ExpiredAtTwiceLifetime(age, lifetime) == age > 2 * lifetime

\* line 372
Expired(age, lifetime) == age > lifetime

\* line 382: meteors.splice(i, 1)
Splice(ms, i) == SubSeq(ms, 1, i - 1) \o SubSeq(ms, i + 1, Len(ms))

\* lines 373-380: what mesh.traverse disposes: the mesh's geometry and material
MeshResources(m) == <<TrailGeo, MeteorMat(m.id)>>

RECURSIVE DisposeAll(_, _)
DisposeAll(g, rs) == IF rs = <<>> THEN g ELSE DisposeAll(Dispose(g, Head(rs)), Tail(rs))

\* lines 197-284: st = [ms, gpu, scene]
CreateMeteor(st, timeSec, life) ==
  LET n == CountKind(st.gpu, "meteorMat") + 1
      shared == (IF trailPlaneGeo THEN {} ELSE {TrailGeo})
                  \cup (IF meteorBaseMaterial THEN {} ELSE {MeteorBaseMat})
  IN [ms |-> Append(st.ms, [id |-> n, birth |-> timeSec, lifetime |-> life, moved |-> 0, opacity |-> 1000]),
      gpu |-> Allocate(st.gpu, shared \cup {MeteorMat(n)}),
      scene |-> st.scene \cup {MeteorObj(n)}]

\* lines 352-383: the body of the loop for index i
VisitMeteor(st, i, timeSec, delta) ==
  LET m == st.ms[i]
      age == timeSec - m.birth
      upd == [m EXCEPT !.moved = IF Moving THEN @ + delta ELSE @,
                       !.opacity = Fade(age, m.lifetime)]
  IN IF Expired(age, m.lifetime)
       THEN [ms |-> Splice(st.ms, i),
             gpu |-> DisposeAll(st.gpu, MeshResources(m)),
             scene |-> st.scene \ {MeteorObj(m.id)}]
       ELSE [st EXCEPT !.ms[i] = upd]

\* a forward traversal that steps past the element following a removed one
RECURSIVE ForwardFrom(_, _, _, _)
ForwardFrom(st, j, timeSec, delta) ==
  IF j > Len(st.ms) THEN st
  ELSE ForwardFrom(VisitMeteor(st, j, timeSec, delta), j + 1, timeSec, delta)

CullPassForward(st, i, timeSec, delta) == ForwardFrom(st, 1, timeSec, delta)

\* line 351: for (i = length - 1; i >= 0; i--)
RECURSIVE CullPass(_, _, _, _)
CullPass(st, i, timeSec, delta) ==
  IF i < 1 THEN st
  ELSE CullPass(VisitMeteor(st, i, timeSec, delta), i - 1, timeSec, delta)

\* a pass that updates and culls first and spawns afterwards
MeteorPassCullFirst(st, timeSec, delta, life) ==
  LET culled == CullPass(st, Len(st.ms), timeSec, delta)
  IN IF ShouldSpawn(timeSec) THEN CreateMeteor(culled, timeSec, life) ELSE culled

\* lines 343-384
MeteorPass(st, timeSec, delta, life) ==
  LET spawned == IF ShouldSpawn(timeSec) THEN CreateMeteor(st, timeSec, life) ELSE st
  IN CullPass(spawned, Len(spawned.ms), timeSec, delta)


\* ------------------------------------------------------------------ state
Init ==
  /\ now = LoadTime
  /\ vsync = FALSE
  /\ viewport = InitialViewport
  /\ dpr = 1
  /\ densityInput = InitialDensity
  /\ lifecycle = "constructed"
  /\ listening = FALSE
  /\ rafQueue = <<>>
  /\ rafRun = <<>>
  /\ frameId = 0
  /\ startTime = LoadTime
  /\ pausedTime = 0
  /\ paused = FALSE
  /\ lastFrameTimeMs = LoadTime
  /\ speed = InitialSpeed
  /\ density = InitialDensity
  /\ isFocused = FALSE
  /\ isAnimating = FALSE
  /\ spawnDelay = InitialSpawnDelay
  /\ lastMeteorSpawn = 0
  /\ nextMeteorDelay = InitialNextMeteorDelay
  /\ uTime = 0
  /\ uSpeed = InitialSpeed
  /\ stars = <<>>
  /\ earth = <<>>
  /\ moon = <<>>
  /\ meteors = <<>>
  /\ trailPlaneGeo = FALSE
  /\ meteorBaseMaterial = FALSE
  /\ scene = {}
  /\ gpu = <<>>
  /\ aspect = <<0, 1>>
  /\ cameraZ = 0
  /\ rendererSize = <<0, 0>>
  /\ pixelRatio = 0
  /\ rendered = 0
  /\ pc = "idle"

\* the resources initScene allocates besides the star geometry (lines 87-90)
SceneResources ==
  {StarMat, <<"earthGeo", 0>>, <<"earthMat", 0>>, <<"moonGeo", 0>>, <<"moonMat", 0>>}
    \cup {<<"earthTex", i>> : i \in 1..4} \cup {<<"moonTex", i>> : i \in 1..2}

StarFieldsIn(sc) == {o \in sc : o[1] = "stars"}

\* lines 286-388, run on the queue q, resources g, scene sc and bodies st, e, m
Animate(q, g, sc, st, e, m, life, jit) ==
  LET h == NewHandle(q)
      effectiveTime == EffectiveTime
      deltaSeconds == DeltaSeconds
      spawn == ShouldSpawn(effectiveTime)
      pass == MeteorPass([ms |-> meteors, gpu |-> g, scene |-> sc], effectiveTime, deltaSeconds, life)
  IN /\ frameId' = h
     /\ rafQueue' = RequestAnimationFrame(q, AnimateCallback(h))
     /\ pausedTime' = IF paused THEN effectiveTime ELSE pausedTime
     /\ uTime' = effectiveTime
     /\ uSpeed' = speed
     /\ stars' = IF Moving THEN RotateStars(st) ELSE st
     /\ earth' = IF Moving THEN AdvanceEarth(e, effectiveTime) ELSE e
     /\ moon' = IF Moving THEN AdvanceMoon(m, effectiveTime) ELSE m
     /\ lastFrameTimeMs' = now
     /\ lastMeteorSpawn' = IF spawn THEN effectiveTime ELSE lastMeteorSpawn
     /\ nextMeteorDelay' = IF spawn THEN RedrawDelay(jit) ELSE nextMeteorDelay
     /\ trailPlaneGeo' = (trailPlaneGeo \/ spawn)
     /\ meteorBaseMaterial' = (meteorBaseMaterial \/ spawn)
     /\ meteors' = pass.ms
     /\ gpu' = pass.gpu
     /\ scene' = pass.scene
     /\ rendered' = Cardinality(StarFieldsIn(pass.scene))
     /\ UNCHANGED <<startTime, paused, spawnDelay>>

\* the host: wall time passes until the next display refresh; the callbacks of
\* one frame run back to back, and with eager the callbacks requested for a
\* refresh run before the next one
Tick(steps, horizon, eager) ==
  \E d \in steps :
    /\ rafRun = <<>>
    /\ eager => ~(vsync /\ rafQueue # <<>>)
    /\ now + d <= LoadTime + horizon
    /\ now' = now + d
    /\ vsync' = TRUE
    /\ UNCHANGED <<viewport, dpr, densityInput, lifecycle, listening, rafVars, clockVars, spawnVars,
                   uiVars, uniformVars, stars, bodyVars, meteorVars, scene, gpu,
                   cameraVars, rendered, pc>>

\* lines 65-104: initScene, the first animate call, the resize listener
NgOnInit(lifetimes, jitters) ==
  /\ lifecycle = "constructed"
  /\ lifecycle' = "live"
  /\ listening' = TRUE
  /\ rendererSize' = viewport
  /\ pixelRatio' = Min(dpr, MaxPixelRatio)
  /\ aspect' = Ratio(viewport[1], viewport[2])
  /\ cameraZ' = InitialCameraZ
  /\ \E life \in lifetimes, jit \in jitters :
       Animate(rafQueue,
               Allocate(gpu, SceneResources \cup {StarGeo(1)}),
               scene \cup {StarsObj(1), <<"earth", 0>>, <<"moon", 0>>,
                           <<"ambientLight", 0>>, <<"pointLight", 0>>},
               <<NewStars(1, density)>>,
               <<[rotX |-> 0, rotY |-> 0, posT |-> 0]>>,
               <<[rotY |-> 0, posT |-> 0]>>,
               life, jit)
  /\ UNCHANGED <<hostVars, rafRun, uiVars, pc>>

\* the host: a display refresh starts running the callbacks requested so far
BeginFrame ==
  /\ vsync
  /\ rafRun = <<>>
  /\ rafQueue # <<>>
  /\ pc = "idle"
  /\ rafRun' = rafQueue
  /\ rafQueue' = <<>>
  /\ vsync' = FALSE
  /\ UNCHANGED <<now, viewport, dpr, densityInput, lifecycle, listening, frameId, clockVars, spawnVars,
                 uiVars, uniformVars, stars, bodyVars, meteorVars, scene, gpu,
                 cameraVars, rendered, pc>>

\* the host runs the animate callback of the current frame
AnimateFrame(lifetimes, jitters) ==
  /\ rafRun # <<>>
  /\ Head(rafRun).fn = "animate"
  /\ rafRun' = Tail(rafRun)
  /\ \E life \in lifetimes, jit \in jitters :
       Animate(rafQueue, gpu, scene, stars, earth, moon, life, jit)
  /\ UNCHANGED <<hostVars, lifecycle, listening, uiVars, cameraVars, pc>>

\* lines 413-423
TogglePause ==
  /\ lifecycle = "live"
  /\ rafRun = <<>>
  /\ pc = "idle"
  /\ paused' = ~paused
  /\ IF ~paused
       THEN /\ pausedTime' = PauseCapture
            /\ UNCHANGED startTime
       ELSE /\ startTime' = ResumeStart
            /\ UNCHANGED pausedTime
  /\ lastFrameTimeMs' = now
  /\ UNCHANGED <<hostVars, lifecycle, listening, rafVars, spawnVars,
                 uiVars, uniformVars, stars, bodyVars, meteorVars, scene, gpu,
                 cameraVars, rendered, pc>>


\* an easing whose t is not capped
EasedUncapped(elapsed) ==
  LET left == (TweenDuration - elapsed) \div 100
  IN 216 - left * left * left

\* line 436: 1 - (1 - t)^3 with t = min(1, elapsed / 600), in 1/216
Eased(elapsed) ==
  LET left == (TweenDuration - Min(TweenDuration, elapsed)) \div 100
  IN 216 - left * left * left

TweensPending == Cardinality({i \in 1..Len(rafQueue) : rafQueue[i].fn = "tick"})

\* lines 426-443
ToggleFocus ==
  /\ lifecycle = "live"
  /\ rafRun = <<>>
  /\ pc = "idle"
  /\ TweensPending < MaxTweens
  /\ isFocused' = ~isFocused
  /\ rafQueue' = RequestAnimationFrame(rafQueue, TickCallback(NewHandle(rafQueue), cameraZ, now))
  /\ UNCHANGED <<hostVars, lifecycle, listening, rafRun, frameId, clockVars, spawnVars,
                 speed, density, isAnimating, uniformVars, stars, bodyVars, meteorVars, scene, gpu,
                 cameraVars, rendered, pc>>

\* lines 433-440: the host runs a tween callback of the current frame
TweenTick ==
  /\ rafRun # <<>>
  /\ Head(rafRun).fn = "tick"
  /\ LET cb == Head(rafRun)
         elapsed == now - cb.t0
     IN /\ cameraZ' = cb.startZ + ((TargetZ - cb.startZ) * Eased(elapsed)) \div 216
        /\ rafQueue' = IF elapsed < TweenDuration
                         THEN RequestAnimationFrame(rafQueue, TickCallback(NewHandle(rafQueue), cb.startZ, cb.t0))
                         ELSE rafQueue
  /\ rafRun' = Tail(rafRun)
  /\ UNCHANGED <<hostVars, lifecycle, listening, frameId, clockVars, spawnVars,
                 uiVars, uniformVars, stars, bodyVars, meteorVars, scene, gpu,
                 aspect, rendererSize, pixelRatio, rendered, pc>>

\* lines 402-405
UpdateSpeed(speeds) ==
  /\ lifecycle = "live"
  /\ rafRun = <<>>
  /\ pc = "idle"
  /\ \E v \in speeds :
       /\ v # speed
       /\ speed' = v
       /\ uSpeed' = v
  /\ UNCHANGED <<hostVars, lifecycle, listening, rafVars, clockVars, spawnVars,
                 density, isFocused, isAnimating, uTime, stars, bodyVars, meteorVars, scene, gpu,
                 cameraVars, rendered, pc>>

\* lines 110-112
UpdateSpawnDelay(delays) ==
  /\ lifecycle = "live"
  /\ rafRun = <<>>
  /\ pc = "idle"
  /\ \E v \in delays :
       /\ v # spawnDelay
       /\ spawnDelay' = v
  /\ UNCHANGED <<hostVars, lifecycle, listening, rafVars, clockVars, lastMeteorSpawn,
                 nextMeteorDelay, uiVars, uniformVars, stars, bodyVars, meteorVars,
                 scene, gpu, cameraVars, rendered, pc>>

\* the old field is taken out of the scene and its geometry kept
ReleaseStarsLeak(st) ==
  IF stars = <<>> THEN st
  ELSE [stars |-> <<>>, scene |-> st.scene \ {StarsObj(stars[1].geo)}, gpu |-> st.gpu]

\* lines 128-133: the old field is taken out of the scene and its geometry disposed
ReleaseStars(st) ==
  IF stars = <<>> THEN st
  ELSE [stars |-> <<>>,
        scene |-> st.scene \ {StarsObj(stars[1].geo)},
        gpu |-> Dispose(st.gpu, StarGeo(stars[1].geo))]

\* the new field is created and never put in the scene
InstallStarsDetached(st, count) ==
  LET k == CountKind(st.gpu, "starGeo") + 1
  IN [stars |-> <<NewStars(k, count)>>, scene |-> st.scene, gpu |-> Allocate(st.gpu, {StarGeo(k)})]

\* lines 135-154: the new geometry is allocated and the new field put in the scene
InstallStars(st, count) ==
  LET k == CountKind(st.gpu, "starGeo") + 1
  IN [stars |-> <<NewStars(k, count)>>,
      scene |-> st.scene \cup {StarsObj(k)},
      gpu |-> Allocate(st.gpu, {StarGeo(k)})]

\* lines 407-410 and createStars up to line 133
UpdateDensity(densities, fields) ==
  /\ lifecycle = "live"
  /\ rafRun = <<>>
  /\ pc = "idle"
  /\ CountKind(gpu, "starGeo") < fields
  /\ \E v \in densities :
       /\ densityInput' = v
       /\ density' = ClampDensity(v)
       /\ LET st == ReleaseStars([stars |-> stars, scene |-> scene, gpu |-> gpu])
          IN /\ stars' = st.stars
             /\ scene' = st.scene
             /\ gpu' = st.gpu
  /\ pc' = "createStars"
  /\ UNCHANGED <<now, vsync, viewport, dpr, lifecycle, listening, rafVars, clockVars,
                 spawnVars, speed, isFocused, isAnimating, uniformVars, bodyVars, meteorVars,
                 cameraVars, rendered>>

\* createStars from line 135, which ends updateDensity
CreateStars ==
  /\ pc = "createStars"
  /\ LET st == InstallStars([stars |-> stars, scene |-> scene, gpu |-> gpu], density)
     IN /\ stars' = st.stars
        /\ scene' = st.scene
        /\ gpu' = st.gpu
  /\ pc' = "idle"
  /\ UNCHANGED <<hostVars, lifecycle, listening, rafVars, clockVars, spawnVars,
                 uiVars, uniformVars, bodyVars, meteorVars, cameraVars, rendered>>

\* lines 391-400, after the window gave the container the size (w, h)
OnResize(viewports, ratios) ==
  /\ listening
  /\ rafRun = <<>>
  /\ pc = "idle"
  /\ \E vp \in viewports, r \in ratios :
       /\ <<vp, r>> # <<viewport, dpr>>
       /\ viewport' = vp
       /\ dpr' = r
       /\ aspect' = Ratio(vp[1], vp[2])
       /\ pixelRatio' = Min(r, MaxPixelRatio)
       /\ rendererSize' = vp
  /\ UNCHANGED <<now, vsync, densityInput, lifecycle, listening, rafVars, clockVars, spawnVars,
                 uiVars, uniformVars, stars, bodyVars, meteorVars, scene, gpu,
                 cameraZ, rendered, pc>>

\* lines 449-458: the geometry and the material of each body, then the body leaves the scene
DisposeBodies(g) ==
  DisposeAll(g, (IF stars = <<>> THEN <<>> ELSE <<StarGeo(stars[1].geo), StarMat>>)
                  \o (IF earth = <<>> THEN <<>> ELSE <<<<"earthGeo", 0>>, <<"earthMat", 0>>>>)
                  \o (IF moon = <<>> THEN <<>> ELSE <<<<"moonGeo", 0>>, <<"moonMat", 0>>>>))

\* line 462: this.starMaterial?.dispose()
DisposeStarMaterial(g) == Dispose(g, StarMat)

\* lines 445-470
NgOnDestroy ==
  /\ lifecycle = "live"
  /\ rafRun = <<>>
  /\ pc = "idle"
  /\ lifecycle' = "destroyed"
  /\ listening' = FALSE
  /\ rafQueue' = IF frameId # 0 THEN CancelAnimationFrame(rafQueue, frameId) ELSE rafQueue
  /\ gpu' = DisposeStarMaterial(DisposeBodies(gpu))
  /\ scene' = scene \ (StarFieldsIn(scene) \cup {<<"earth", 0>>, <<"moon", 0>>})
  /\ stars' = <<>>
  /\ earth' = <<>>
  /\ moon' = <<>>
  /\ UNCHANGED <<hostVars, rafRun, frameId, clockVars, spawnVars, uiVars, uniformVars,
                 meteorVars, cameraVars, rendered, pc>>

\* ------------------------------------------------- the earlier variant
\* part_001 line 572: the tween's closure, which holds its target
EarlierTickCallback(h, z, target, t) ==
  [h |-> h, fn |-> "tickEarlier", startZ |-> z, t0 |-> t, targetZ |-> target]

\* part_001 lines 573-574: 1 - (1 - t)^3 with t = min(2, elapsed / 600), in 1/216
EasedEarlier(elapsed) ==
  LET left == (TweenDuration - Min(2 * TweenDuration, elapsed)) \div 100
  IN 216 - left * left * left

\* part_001 line 568: nextFocus ? 30 : 60
TargetFor(nextFocus) == IF nextFocus THEN TargetZ ELSE UnfocusedZ

\* part_001 lines 492-502: every point's z advanced by speed * 0.12 (the field
\* counts the steps; a point passing z = 40 restarts at a random depth)
ShiftStars(st) == IF st = <<>> THEN st ELSE <<[st[1] EXCEPT !.angle = @ + speed]>>

\* part_001 lines 480-528, run on the queue q and the bodies st, e, m
AnimateEarlier(q, sc, st, e, m) ==
  LET h == NewHandle(q)
      t == now - startTime
  IN /\ frameId' = h
     /\ rafQueue' = RequestAnimationFrame(q, AnimateCallback(h))
     /\ uTime' = IF paused THEN uTime ELSE t
     /\ uSpeed' = IF paused THEN uSpeed ELSE speed
     /\ stars' = IF paused THEN st ELSE ShiftStars(st)
     /\ earth' = IF paused THEN e ELSE AdvanceEarth(e, t)
     /\ moon' = IF paused THEN m ELSE AdvanceMoon(m, t)
     /\ rendered' = IF paused THEN rendered ELSE Cardinality(StarFieldsIn(sc))

\* part_001 lines 342-392
NgOnInitEarlier ==
  /\ lifecycle = "constructed"
  /\ lifecycle' = "live"
  /\ listening' = TRUE
  /\ rendererSize' = viewport
  /\ pixelRatio' = Min(dpr, MaxPixelRatio)
  /\ aspect' = Ratio(viewport[1], viewport[2])
  /\ cameraZ' = UnfocusedZ
  /\ gpu' = Allocate(gpu, SceneResources \cup {StarGeo(1)})
  /\ scene' = scene \cup {StarsObj(1), <<"earth", 0>>, <<"moon", 0>>,
                          <<"ambientLight", 0>>, <<"pointLight", 0>>}
  /\ AnimateEarlier(rafQueue, scene', <<NewStars(1, density)>>,
                    <<[rotX |-> 0, rotY |-> 0, posT |-> 0]>>,
                    <<[rotY |-> 0, posT |-> 0]>>)
  /\ UNCHANGED <<hostVars, rafRun, clockVars, spawnVars, uiVars, meteorVars, pc>>

\* the host runs the earlier variant's animate callback of the current frame
AnimateFrameEarlier ==
  /\ rafRun # <<>>
  /\ Head(rafRun).fn = "animate"
  /\ rafRun' = Tail(rafRun)
  /\ AnimateEarlier(rafQueue, scene, stars, earth, moon)
  /\ UNCHANGED <<hostVars, lifecycle, listening, clockVars, spawnVars, uiVars,
                 meteorVars, scene, gpu, cameraVars, pc>>

\* part_001 lines 552-554
TogglePauseEarlier ==
  /\ lifecycle = "live"
  /\ rafRun = <<>>
  /\ paused' = ~paused
  /\ UNCHANGED <<hostVars, lifecycle, listening, rafVars, startTime, pausedTime,
                 lastFrameTimeMs, spawnVars, uiVars, uniformVars, stars, bodyVars,
                 meteorVars, scene, gpu, cameraVars, rendered, pc>>

\* part_001 lines 556-591: a call while a tween runs returns at line 558
ToggleFocusEarlier ==
  /\ lifecycle = "live"
  /\ rafRun = <<>>
  /\ IF isAnimating
       THEN UNCHANGED <<isFocused, isAnimating, rafQueue>>
       ELSE /\ isFocused' = ~isFocused
            /\ isAnimating' = TRUE
            /\ rafQueue' = RequestAnimationFrame(rafQueue,
                   EarlierTickCallback(NewHandle(rafQueue), cameraZ, TargetFor(~isFocused), now))
  /\ UNCHANGED <<hostVars, lifecycle, listening, rafRun, frameId, clockVars, spawnVars,
                 speed, density, uniformVars, stars, bodyVars, meteorVars, scene, gpu,
                 cameraVars, rendered, pc>>

\* part_001 lines 572-588: the host runs a tween callback of the current frame
TweenTickEarlier ==
  /\ rafRun # <<>>
  /\ Head(rafRun).fn = "tickEarlier"
  /\ LET cb == Head(rafRun)
         elapsed == now - cb.t0
     IN /\ cameraZ' = cb.startZ + ((cb.targetZ - cb.startZ) * EasedEarlier(elapsed)) \div 216
        /\ IF elapsed < TweenDuration
             THEN /\ rafQueue' = RequestAnimationFrame(rafQueue,
                         EarlierTickCallback(NewHandle(rafQueue), cb.startZ, cb.targetZ, cb.t0))
                  /\ UNCHANGED isAnimating
             ELSE /\ isAnimating' = FALSE
                  /\ UNCHANGED rafQueue
  /\ rafRun' = Tail(rafRun)
  /\ UNCHANGED <<hostVars, lifecycle, listening, frameId, clockVars, spawnVars,
                 speed, density, isFocused, uniformVars, stars, bodyVars, meteorVars,
                 scene, gpu, aspect, rendererSize, pixelRatio, rendered, pc>>

\* ------------------------------------------------------------ specifications
\* every operation, over a short stretch of wall time
Next ==
  \/ Tick({200}, FullHorizon, TRUE)
  \/ NgOnInit({1500}, {100})
  \/ BeginFrame
  \/ AnimateFrame({1500}, {100})
  \/ TogglePause
  \/ ToggleFocus
  \/ TweenTick
  \/ UpdateSpeed(Speeds)
  \/ UpdateSpawnDelay({0, 300})
  \/ UpdateDensity({500, 20001}, 2)
  \/ CreateStars
  \/ OnResize(Viewports, DevicePixelRatios)
  \/ NgOnDestroy

Spec == Init /\ [][Next]_vars

\* the frame clock: frames and pause toggles at every spacing of wall time
NextClock ==
  \/ Tick(TimeSteps, ClockHorizon, FALSE)
  \/ NgOnInit({1500}, {100})
  \/ BeginFrame
  \/ AnimateFrame({1500}, {100})
  \/ TogglePause
  \/ NgOnDestroy

SpecClock == Init /\ [][NextClock]_vars

\* the meteor life cycle: spawns, expiries, pauses, teardown, with sparse frames
NextMeteor ==
  \/ Tick(LongSteps, Horizon, TRUE)
  \/ NgOnInit(Lifetimes, {100})
  \/ BeginFrame
  \/ AnimateFrame(Lifetimes, {100})
  \/ TogglePause
  \/ NgOnDestroy

SpecMeteor == Init /\ [][NextMeteor]_vars

\* the spawn scheduler: jittered delays, spawn-delay changes, pauses
NextSpawn ==
  \/ Tick(TimeSteps, SpawnHorizon, TRUE)
  \/ NgOnInit({1500}, Jitters)
  \/ BeginFrame
  \/ AnimateFrame({1500}, Jitters)
  \/ TogglePause
  \/ UpdateSpawnDelay(SpawnDelays)

SpecSpawn == Init /\ [][NextSpawn]_vars

\* the scenario of a fixed spawn delay of 0.3 s and no jitter: the component is
\* initialised as soon as it is constructed, so effective time starts at 0, every
\* refresh runs its frame, and the simulation is never paused
NextScenario ==
  \/ lifecycle = "live" /\ Tick(TimeSteps, ScenarioHorizon, TRUE)
  \/ NgOnInit(Lifetimes, {100})
  \/ BeginFrame
  \/ AnimateFrame(Lifetimes, {100})

SpecScenario == Init /\ [][NextScenario]_vars

\* the star field: density changes between frames, teardown
NextStars ==
  \/ Tick({200}, ShortHorizon, FALSE)
  \/ NgOnInit({1500}, {100})
  \/ BeginFrame
  \/ AnimateFrame({1500}, {100})
  \/ TogglePause
  \/ UpdateDensity(Densities, MaxStarFields)
  \/ CreateStars
  \/ NgOnDestroy

SpecStars == Init /\ [][NextStars]_vars

\* the integration step: frames at short and at stalled spacings, with pauses
NextMotion ==
  \/ Tick(ShortSteps, MotionHorizon, FALSE)
  \/ NgOnInit({1500}, {100})
  \/ BeginFrame
  \/ AnimateFrame({1500}, {100})
  \/ TogglePause

SpecMotion == Init /\ [][NextMotion]_vars

\* the focus tween: toggles and pauses between frames that the host keeps
\* delivering while wall time advances
NextTween ==
  \/ Tick(TweenSteps, TweenHorizon, TRUE)
  \/ NgOnInit({1500}, {100})
  \/ BeginFrame
  \/ AnimateFrame({1500}, {100})
  \/ TweenTick
  \/ ToggleFocus
  \/ TogglePause

SpecTween ==
  /\ Init
  /\ [][NextTween]_vars
  /\ WF_vars(Tick(TweenSteps, TweenHorizon, TRUE))
  /\ WF_vars(BeginFrame)
  /\ WF_vars(AnimateFrame({1500}, {100}))
  /\ WF_vars(TweenTick)

\* the expiry of meteors: sparse frames that the host keeps delivering while
\* wall time advances, with pauses
NextExpiry ==
  \/ Tick(LongSteps, ExpiryHorizon, TRUE)
  \/ NgOnInit(Lifetimes, {100})
  \/ BeginFrame
  \/ AnimateFrame(Lifetimes, {100})
  \/ TogglePause

\* the host runs the next callback of the frame it has begun
RunCallback == rafRun # <<>> /\ rafRun' = Tail(rafRun)

SpecExpiry ==
  /\ Init
  /\ [][NextExpiry]_vars
  /\ WF_vars(Tick(LongSteps, ExpiryHorizon, TRUE))
  /\ WF_vars(BeginFrame)
  /\ WF_rafRun(RunCallback)

\* paused frames: spawns and expiries around pauses, with spawn-delay changes
NextPaused ==
  \/ Tick(LongSteps, PausedHorizon, TRUE)
  \/ NgOnInit({1500}, {100})
  \/ BeginFrame
  \/ AnimateFrame({1500}, {100})
  \/ TogglePause
  \/ UpdateSpawnDelay({0 - 100, 0, 300})

SpecPaused == Init /\ [][NextPaused]_vars

\* the earlier variant: its frame loop, pause toggle and guarded focus tween
NextEarlier ==
  \/ Tick(TweenSteps, EarlierHorizon, TRUE)
  \/ NgOnInitEarlier
  \/ BeginFrame
  \/ AnimateFrameEarlier
  \/ TogglePauseEarlier
  \/ ToggleFocusEarlier
  \/ TweenTickEarlier

SpecEarlier == Init /\ [][NextEarlier]_vars

\* ------------------------------------------------------------------ claims
\* a step that runs animate: the call in ngOnInit, or a frame callback
FrameStep ==
  \/ lifecycle = "constructed" /\ lifecycle' = "live"
  \/ rafRun # <<>> /\ Head(rafRun).fn = "animate" /\ rafRun' = Tail(rafRun)

\* C1: under the non-decreasing wall clock the effective time never decreases;
\* it stands still while paused, a pause or resume toggle leaves it where it was
\* (so a pause and resume with no wall time between them change nothing), while
\* running it advances exactly with the wall clock (after a resume: the value
\* captured at pause plus the wall time since the resume), and every frame feeds
\* exactly this value to the animators.
C1_EffectiveTimeContinuous ==
  [][ /\ EffectiveTime' >= EffectiveTime
      /\ (paused /\ paused') => EffectiveTime' = EffectiveTime
      /\ (paused # paused') => EffectiveTime' = EffectiveTime
      /\ (~paused /\ ~paused') => EffectiveTime' - EffectiveTime = now' - now
      /\ FrameStep => (uTime' = EffectiveTime' /\ uTime' >= uTime) ]_vars

\* C1 witness: a frame has run after a resume that followed a pause of nonzero
\* length, and wall time has passed since the resume
C1_Witness ==
  /\ lifecycle = "live"
  /\ ~paused
  /\ startTime > LoadTime
  /\ pausedTime > 0
  /\ uTime = now - startTime
  /\ uTime > pausedTime


Ids(ms) == {ms[i].id : i \in 1..Len(ms)}

Culled == {r \in DOMAIN gpu : r[1] = "meteorMat" /\ r[2] \notin Ids(meteors)}

\* C2: the update pass of a frame leaves exactly the meteors, among those active
\* before the frame and the one spawned in it, of age 0 <= age <= lifetime at the
\* frame's effective time: every older one is removed in that pass and no other.
C2_CullExact ==
  [][ FrameStep =>
        /\ \A j \in 1..Len(meteors') :
             /\ 0 <= uTime' - meteors'[j].birth
             /\ uTime' - meteors'[j].birth <= meteors'[j].lifetime
             /\ \/ meteors'[j].id \in Ids(meteors)
                \/ meteors'[j].birth = uTime' /\ ShouldSpawn(uTime')
        /\ \A i \in 1..Len(meteors) :
             uTime' - meteors[i].birth <= meteors[i].lifetime
               => meteors[i].id \in Ids(meteors')
        /\ ShouldSpawn(uTime') => Cardinality(Ids(meteors') \ Ids(meteors)) = 1 ]_vars

\* C2 witness: two meteors have expired and been removed while a meteor of
\* age = lifetime and a younger one are still active
C2_Witness ==
  /\ Cardinality(Culled) >= 2
  /\ \E i \in 1..Len(meteors) : uTime - meteors[i].birth = meteors[i].lifetime
  /\ \E i \in 1..Len(meteors) : uTime - meteors[i].birth < meteors[i].lifetime

\* the geometry and the material a scene object draws with
Uses(o) ==
  CASE o[1] = "stars" -> {StarGeo(o[2]), StarMat}
    [] o[1] = "earth" -> {<<"earthGeo", 0>>, <<"earthMat", 0>>}
    [] o[1] = "moon" -> {<<"moonGeo", 0>>, <<"moonMat", 0>>}
    [] o[1] = "meteor" -> {TrailGeo, MeteorMat(o[2])}
    [] OTHER -> {}

GeometriesAndMaterials == {r \in DOMAIN gpu : r[1] \notin {"earthTex", "moonTex"}}

\* C3: no geometry or material is disposed more than once, and none that an
\* object still in the scene draws with has been disposed (so the expiry of one
\* meteor leaves the trail geometry shared by the others alone).
C3_ReleasedOnceAndUnused ==
  \A r \in GeometriesAndMaterials :
    /\ gpu[r] <= 1
    /\ gpu[r] >= 1 => \A o \in scene : r \notin Uses(o)

\* C4: after ngOnDestroy every geometry and material allocated in the session
\* has been disposed.
C4_AllReleasedAfterDestroy ==
  lifecycle = "destroyed" => \A r \in GeometriesAndMaterials : gpu[r] >= 1


Births(ms) == {ms[i].birth : i \in 1..Len(ms)}

Near(a, b) == a - b <= 50 /\ b - a <= 50

\* C5 as stated: with the delay fixed at 0.3 s and no jitter, the frame at
\* effective time 1.2 s has seen exactly 4 spawns, near 0.3, 0.6, 0.9 and 1.2 s.
C5_FourSpawns ==
  (lifecycle = "live" /\ uTime = 1200) =>
    /\ Len(meteors) = 4
    /\ \A i \in 1..Len(meteors) : Near(meteors[i].birth, 300 * i)

\* C5 amended: with the delay fixed at 0.3 s and no jitter, the frames up to
\* effective time 1.2 s spawn at most 3 meteors; the first spawn comes after more
\* than 0.35 s (the initial nextMeteorDelay) and each later one more than 0.3 s
\* after the one before.
C5_AtMostThreeSpawns ==
  (lifecycle = "live" /\ uTime <= 1200) =>
    /\ Len(meteors) <= 3
    /\ \A i \in 1..Len(meteors) :
         /\ i = 1 => meteors[i].birth > InitialNextMeteorDelay
         /\ i > 1 => meteors[i].birth - meteors[i - 1].birth > InitialSpawnDelay

\* C5 witness: frames every 0.1 s up to 1.2 s have spawned at 0.4, 0.8 and 1.2 s
C5_Witness ==
  /\ uTime = 1200
  /\ Len(meteors) = 3
  /\ Births(meteors) = {400, 800, 1200}

Spawned == CountKind(gpu, "meteorMat")

\* C6: a frame spawns a meteor exactly when its effective time minus
\* lastMeteorSpawn exceeds nextMeteorDelay, and never more than one; a spawn
\* sets lastMeteorSpawn to the frame's effective time and redraws
\* nextMeteorDelay between 0.8 and 1.2 times the current spawnDelay; a frame
\* without a spawn leaves both unchanged.
C6_SpawnRule ==
  [][ FrameStep =>
        /\ Spawned' - Spawned \in {0, 1}
        /\ Len(meteors') <= Len(meteors) + 1
        /\ Spawned' = Spawned + 1 <=> uTime' - lastMeteorSpawn > nextMeteorDelay
        /\ Spawned' = Spawned + 1 =>
             /\ lastMeteorSpawn' = uTime'
             /\ 100 * nextMeteorDelay' >= Min(80 * spawnDelay, 120 * spawnDelay)
             /\ 100 * nextMeteorDelay' <= Max(80 * spawnDelay, 120 * spawnDelay)
        /\ Spawned' = Spawned => UNCHANGED <<lastMeteorSpawn, nextMeteorDelay>> ]_vars

\* C6 witness: a second spawn has happened under a changed spawn delay, with a
\* delay drawn off the middle of the band
C6_Witness ==
  /\ Spawned >= 2
  /\ spawnDelay = 2000
  /\ lastMeteorSpawn = uTime
  /\ nextMeteorDelay = 1600

Clamped(v) == IF v < 0 THEN 0 ELSE IF v > 20000 THEN 20000 ELSE v

\* C7: once updateDensity(v) has returned, the star field has exactly
\* N = min(20000, max(0, v)) points, each with one position and one seed.
C7_DensityClamped ==
  (lifecycle = "live" /\ pc = "idle") =>
    /\ Len(stars) = 1
    /\ stars[1].seeds = Clamped(densityInput)
    /\ stars[1].positions = 3 * Clamped(densityInput)
    /\ stars[1].seeds \in 0..20000

\* C7 witness: a request above the range has been clamped to 20000 points
C7_Witness ==
  /\ lifecycle = "live"
  /\ pc = "idle"
  /\ densityInput = 20001
  /\ stars[1].seeds = 20000

StarGeos == {r \in DOMAIN gpu : r[1] = "starGeo"}

\* C8: the geometry of every star field ever installed is disposed exactly once,
\* the replaced one by the density change that replaces it and the last one by
\* ngOnDestroy, and between calls exactly one star field is in the scene.
C8_StarGeometryReleasedOnce ==
  /\ \A r \in StarGeos :
       gpu[r] = IF stars # <<>> /\ stars[1].geo = r[2] THEN 0 ELSE 1
  /\ (lifecycle = "live" /\ pc = "idle") =>
       (stars # <<>> /\ StarFieldsIn(scene) = {StarsObj(stars[1].geo)})
  /\ lifecycle = "destroyed" => \A r \in StarGeos : gpu[r] = 1

\* C8 witness: after two density changes and the teardown, three geometries
\* have each been disposed once
C8_Witness ==
  /\ lifecycle = "destroyed"
  /\ Cardinality(StarGeos) = 3
  /\ \A r \in StarGeos : gpu[r] = 1

\* C9 as stated: while the component is live there is no state in which a star
\* geometry is already disposed and no star field is in the scene.
C9_NoGapState ==
  lifecycle = "live" =>
    ~(StarFieldsIn(scene) = {} /\ \E r \in StarGeos : gpu[r] >= 1)

\* C9 amended: the old field is removed and its geometry disposed before the new
\* field is created, inside the one createStars call: a state without a star
\* field occurs only there, no frame runs in it, and every frame rendered draws
\* exactly one star field, whose geometry is not disposed.
C9_NoGapFrame ==
  lifecycle = "live" =>
    /\ rendered = 1
    /\ StarFieldsIn(scene) = {} => (pc = "createStars" /\ rafRun = <<>>)
    /\ pc = "idle" => \A o \in StarFieldsIn(scene) : gpu[StarGeo(o[2])] = 0

\* C9 witness: a frame has been rendered after a regeneration of the field
C9_Witness ==
  /\ lifecycle = "live"
  /\ pc = "idle"
  /\ Cardinality(StarGeos) >= 2
  /\ uTime > 0
  /\ rendered = 1

\* C10: a resize to (W, H) sets the camera aspect to W / H and leaves the clock,
\* the spawn scheduler, the meteors, the star field, the bodies, the uniforms,
\* speed, density and focus, the camera distance, the scene, the resources and
\* the frame callbacks unchanged.
C10_ResizeFrame ==
  [][ <<viewport, dpr>>' # <<viewport, dpr>> =>
        /\ aspect'[1] * viewport'[2] = aspect'[2] * viewport'[1]
        /\ aspect'[2] > 0
        /\ rendererSize' = viewport'
        /\ UNCHANGED <<clockVars, spawnVars, meteorVars, stars, bodyVars, uniformVars,
                       uiVars, cameraZ, scene, gpu, rafVars, lifecycle, now>> ]_vars

\* C10 witness: the container has been resized to 1920 x 1080 while paused with
\* a meteor active, and the aspect is 16 / 9
C10_Witness ==
  /\ viewport = <<1920, 1080>>
  /\ aspect = <<16, 9>>
  /\ paused
  /\ meteors # <<>>
  /\ lifecycle = "live"

\* the callbacks named fn in the sequence q
CallbacksIn(q, fn) == Cardinality({i \in 1..Len(q) : q[i].fn = fn})

\* the main-loop callbacks requested and not yet run
MainLoopPending == CallbacksIn(rafQueue, "animate") + CallbacksIn(rafRun, "animate")

\* C11: once ngOnDestroy has run no animate callback is pending, and no later
\* step runs animate: nothing is updated, spawned, culled or rendered, and no
\* frame is requested again, at whatever point between two frames the teardown
\* came and whether the simulation was paused or not.
C11_NoFrameAfterDestroy ==
  /\ [](lifecycle = "destroyed" => MainLoopPending = 0)
  /\ [][ lifecycle = "destroyed" =>
           /\ ~FrameStep
           /\ UNCHANGED <<frameId, clockVars, spawnVars, uniformVars, stars, bodyVars,
                          meteorVars, scene, gpu, rendered>> ]_vars

\* C11 witness: the component was torn down while paused with a focus tween
\* pending; the next display refresh has run that tween's callback and no frame
\* of the main loop
C11_Witness ==
  /\ lifecycle = "destroyed"
  /\ paused
  /\ ~vsync
  /\ now > lastFrameTimeMs
  /\ rafRun = <<>>
  /\ cameraZ # InitialCameraZ

\* C12: while the component is live exactly one main-loop callback is pending
\* (requested, or in the frame being run), a frame runs at most one, and every
\* run of animate, paused or not, requests exactly one; pause, focus, density
\* and resize leave the number of main-loop callbacks alone.
C12_OneMainLoop ==
  /\ [](lifecycle = "live" =>
          /\ MainLoopPending = 1
          /\ \E i \in 1..Len(rafQueue \o rafRun) :
               /\ (rafQueue \o rafRun)[i].fn = "animate"
               /\ (rafQueue \o rafRun)[i].h = frameId)
  /\ [][ /\ FrameStep =>
              CallbacksIn(rafQueue', "animate") = CallbacksIn(rafQueue, "animate") + 1
         /\ (lifecycle = "live" /\ lifecycle' = "live" /\ ~FrameStep) =>
              MainLoopPending' = MainLoopPending ]_vars

\* C12 witness: after a pause, a focus toggle, a density change and a resize, a
\* paused frame has run and one main-loop callback is pending beside the tween's
C12_Witness ==
  /\ lifecycle = "live"
  /\ paused
  /\ isFocused
  /\ density # InitialDensity
  /\ viewport # InitialViewport
  /\ now > LoadTime
  /\ lastFrameTimeMs = now
  /\ ~vsync
  /\ rafRun = <<>>
  /\ CallbacksIn(rafQueue, "animate") = 1
  /\ CallbacksIn(rafQueue, "tick") = 1

\* C13: the opacity every active meteor carries after an update pass is
\* 1 - min(1, age / lifetime) at the pass's effective time (here in 1/1000,
\* rounded up to the next 1/1000): it lies in [0, 1], it never rises from one
\* pass to the next, and a meteor of age = lifetime is still active, with
\* opacity exactly 0.
C13_Opacity ==
  /\ [](\A i \in 1..Len(meteors) :
          LET m == meteors[i]
              age == uTime - m.birth
          IN /\ 0 <= age /\ age <= m.lifetime
             /\ m.opacity \in 0..1000
             /\ (1000 - m.opacity) * m.lifetime <= 1000 * age
             /\ (1000 - m.opacity + 1) * m.lifetime > 1000 * age
             /\ age = m.lifetime => m.opacity = 0
             /\ age < m.lifetime => m.opacity > 0)
  /\ [][ \A i \in 1..Len(meteors), j \in 1..Len(meteors') :
           meteors[i].id = meteors'[j].id => meteors'[j].opacity <= meteors[i].opacity ]_vars

\* C13 witness: a meteor of age = lifetime is active with opacity 0 beside a
\* younger one that is partly faded
C13_Witness ==
  /\ \E i \in 1..Len(meteors) :
       /\ uTime - meteors[i].birth = meteors[i].lifetime
       /\ meteors[i].opacity = 0
  /\ \E i \in 1..Len(meteors) :
       /\ meteors[i].opacity > 0
       /\ meteors[i].opacity < 1000

\* C14: a constructed component can always be initialised, and ngOnInit leaves
\* it live and in its initial state: not paused, speed 2, density 2000, the star
\* field of 2000 points (one position and one seed each) in the scene with its
\* geometry undisposed, the first frame rendered, and the main loop scheduled:
\* one animate callback pending, under the handle in frameId.
C14_InitialState ==
  /\ [](lifecycle = "constructed" => ENABLED <<NgOnInit({1500}, {100})>>_vars)
  /\ [][ (lifecycle = "constructed" /\ lifecycle' = "live") =>
           /\ ~paused'
           /\ speed' = 2
           /\ density' = 2000
           /\ Len(stars') = 1
           /\ stars'[1].seeds = 2000
           /\ stars'[1].positions = 3 * 2000
           /\ StarFieldsIn(scene') = {StarsObj(stars'[1].geo)}
           /\ gpu'[StarGeo(stars'[1].geo)] = 0
           /\ rendered' = 1
           /\ CallbacksIn(rafQueue', "animate") = 1
           /\ \E i \in 1..Len(rafQueue') : rafQueue'[i].h = frameId' ]_vars

\* C14 witness: the component has just been initialised and nothing else has
\* happened: its first frame is rendered and the next one is requested
C14_Witness ==
  /\ lifecycle = "live"
  /\ ~paused
  /\ stars # <<>>
  /\ stars[1].seeds = InitialDensity
  /\ CountKind(gpu, "starGeo") = 1
  /\ lastFrameTimeMs = now
  /\ rendered = 1
  /\ Len(rafQueue) = 1
  /\ rafQueue[1].fn = "animate"
  /\ rafQueue[1].h = frameId
  /\ rafRun = <<>>

\* the integration step of a frame run in the current state: 0 when paused,
\* else the wall time since lastFrameTimeMs, at most 0.1 s
FrameDelta == IF paused THEN 0 ELSE IF now - lastFrameTimeMs > 100 THEN 100 ELSE now - lastFrameTimeMs

\* C15: a frame that spawns a meteor has the update pass cover it: after the
\* frame the new meteor, born at the frame's effective time, has been moved by
\* that frame's delta and has had its opacity written (1 at age 0), like every
\* older meteor the pass keeps, which is moved by the same delta.
C15_SpawnThenUpdate ==
  [][ (FrameStep /\ Spawned' = Spawned + 1) =>
        /\ meteors' # <<>>
        /\ LET m == meteors'[Len(meteors')]
           IN /\ m.id = Spawned'
              /\ m.id \notin Ids(meteors)
              /\ m.birth = uTime'
              /\ m.moved = FrameDelta
              /\ m.opacity = 1000
        /\ \A i \in 1..Len(meteors), j \in 1..Len(meteors') :
             meteors[i].id = meteors'[j].id =>
               meteors'[j].moved = meteors[i].moved + FrameDelta ]_vars

\* C15 witness: the last frame spawned a meteor and moved it by 0.1 s of travel,
\* along with an older one
C15_Witness ==
  /\ Len(meteors) >= 2
  /\ meteors[Len(meteors)].birth = uTime
  /\ meteors[Len(meteors)].moved = 100
  /\ meteors[Len(meteors)].opacity = 1000
  /\ lastMeteorSpawn = uTime
  /\ meteors[1].moved > 100
  /\ meteors[1].opacity < 1000

\* C16: a frame run while paused moves nothing: the star positions, the
\* rotation and the position of the earth and of the moon, and the position of
\* every meteor that stays active are after the frame what they were before it.
C16_PausedFrameMovesNothing ==
  [][ (FrameStep /\ paused) =>
        /\ stars' = stars
        /\ earth' = earth
        /\ moon' = moon
        /\ \A i \in 1..Len(meteors), j \in 1..Len(meteors') :
             meteors[i].id = meteors'[j].id => meteors'[j].moved = meteors[i].moved ]_vars

\* C16 witness: a frame has just run at a wall time later than the pause, with a
\* meteor in flight and the bodies already advanced by earlier frames
C16_Witness ==
  /\ lifecycle = "live"
  /\ paused
  /\ ~vsync
  /\ rafRun = <<>>
  /\ lastFrameTimeMs = now
  /\ now - startTime > pausedTime
  /\ uTime = pausedTime
  /\ meteors # <<>>
  /\ meteors[1].moved > 0
  /\ stars[1].angle > 0
  /\ earth[1].posT > 0

\* C17: lastFrameTimeMs is the wall time of the latest frame or pause toggle
\* (set by both and by nothing else), and the step a frame moves its meteors by
\* is 0 when paused and otherwise the wall time since then, at most 0.1 s: it
\* always lies in [0, 0.1] s, whatever wall time a pause or a stall took.
C17_DeltaClamped ==
  /\ [](lastFrameTimeMs <= now)
  /\ [][ /\ (FrameStep \/ paused' # paused) => lastFrameTimeMs' = now'
         /\ lastFrameTimeMs' # lastFrameTimeMs => (FrameStep \/ paused' # paused)
         /\ FrameStep =>
              \E d \in 0..100 :
                /\ paused => d = 0
                /\ ~paused => d = Min(100, now - lastFrameTimeMs)
                /\ \A j \in 1..Len(meteors') :
                     \/ /\ meteors'[j].id \notin Ids(meteors)
                        /\ meteors'[j].moved = d
                     \/ \E i \in 1..Len(meteors) :
                          /\ meteors[i].id = meteors'[j].id
                          /\ meteors'[j].moved = meteors[i].moved + d ]_vars

\* C17 witness: a meteor spawned by a frame that came 0.4 s after the one before
\* was moved by the clamped 0.1 s in it, by nothing during a pause of 0.05 s,
\* and after the resume by 0.05 s in a frame 0.05 s after the one before and by
\* the clamped 0.1 s in a frame that came 0.15 s after the one before
C17_Witness ==
  /\ lifecycle = "live"
  /\ ~paused
  /\ pausedTime = 400
  /\ startTime = LoadTime + 50
  /\ uTime = 600
  /\ Len(meteors) = 1
  /\ meteors[1].birth = 400
  /\ meteors[1].moved = 250

\* the tick callbacks of the tween started at wall time t that are pending
TweenPendingSince(t) ==
  \E i \in 1..Len(rafQueue \o rafRun) :
    (rafQueue \o rafRun)[i].fn = "tick" /\ (rafQueue \o rafRun)[i].t0 = t

\* the wall times at which a tween can start with its 600 ms inside the
\* explored stretch
TweenStarts == {t \in LoadTime..(LoadTime + TweenHorizon - 600) : (t - LoadTime) % 100 = 0}

\* the explored stretch of wall time has no room for another step
ClockAtEnd == \A d \in TweenSteps : now + d > LoadTime + TweenHorizon

\* C18: a tick of the tween run less than 600 ms after its toggleFocus puts the
\* camera between its start and the target and requests exactly one more tick;
\* a tick run 600 ms or more after it puts the camera exactly at z = 30 and
\* requests nothing; no tick reads or writes the simulation clock or the pause
\* state; and with frames delivered and wall time advancing, every tween
\* started comes to its end, paused or not (unless wall time stops advancing
\* before its 600 ms have passed).
C18_TweenTerminates ==
  /\ [][ (rafRun # <<>> /\ Head(rafRun).fn = "tick" /\ rafRun' = Tail(rafRun)) =>
           LET cb == Head(rafRun)
               elapsed == now - cb.t0
               ticks == CallbacksIn(rafQueue, "tick")
           IN /\ elapsed >= 0
              /\ elapsed < 600 =>
                   /\ CallbacksIn(rafQueue', "tick") = ticks + 1
                   /\ rafQueue'[Len(rafQueue')].t0 = cb.t0
                   /\ cameraZ' <= Max(cb.startZ, 30000)
                   /\ cameraZ' >= Min(cb.startZ, 30000)
              /\ elapsed >= 600 =>
                   /\ rafQueue' = rafQueue
                   /\ cameraZ' = 30000
              /\ UNCHANGED <<clockVars, uniformVars, isFocused, meteorVars, frameId>> ]_vars
  /\ \A t \in TweenStarts :
       TweenPendingSince(t) ~> (~TweenPendingSince(t) \/ (ClockAtEnd /\ now - t < 600))

\* C18 witness: the simulation was paused at effective time 0 and has stayed
\* there, and a tween started since has finished with the camera at z = 30
C18_Witness ==
  /\ lifecycle = "live"
  /\ paused
  /\ pausedTime = 0
  /\ uTime = 0
  /\ isFocused
  /\ cameraZ = TargetZ
  /\ now >= LoadTime + TweenDuration
  /\ CallbacksIn(rafQueue, "tick") + CallbacksIn(rafRun, "tick") = 0

\* C19: the rotation and the position of the earth and of the moon after a
\* frame depend on the frame's effective time alone: an unpaused frame at the
\* effective time at which the bodies were last advanced leaves them as they
\* are (the run up to it and the run through it reach the same effective time
\* with different numbers of unpaused frames).
C19_BodiesFunctionOfTime ==
  [][ (/\ FrameStep
       /\ ~paused
       /\ earth # <<>>
       /\ moon # <<>>
       /\ earth[1].posT = uTime'
       /\ moon[1].posT = uTime')
        => (earth' = earth /\ moon' = moon) ]_vars

\* C20: in the earlier variant, whenever no tween is running (isAnimating is
\* false) the camera distance matches the focus state: z = 30 when focused and
\* z = 60 when not; and while a tween is running no toggleFocus changes the
\* focus state or starts a second tween.
C20_CameraMatchesFocus ==
  lifecycle = "live" =>
    /\ ~isAnimating => cameraZ = (IF isFocused THEN 30000 ELSE 60000)
    /\ isAnimating <=>
         CallbacksIn(rafQueue, "tickEarlier") + CallbacksIn(rafRun, "tickEarlier") = 1
    /\ CallbacksIn(rafQueue, "tickEarlier") + CallbacksIn(rafRun, "tickEarlier") <= 1

\* the active meteors whose age at the current effective time is past their
\* lifetime
Overdue == {i \in 1..Len(meteors) : EffectiveTime - meteors[i].birth > meteors[i].lifetime}

\* meteor n is in the active set
Active(n) == n \in Ids(meteors)

\* the explored stretch of wall time has no room for another step
ExpiryClockAtEnd == \A d \in LongSteps : now + d > LoadTime + ExpiryHorizon

\* C21: a meteor lives at most 2.5 s; it is in the scene exactly while it is
\* active; after every frame every active meteor has age <= lifetime, so none
\* outlives its lifetime of effective time by more than the time to the next
\* frame; and with frames delivered, a meteor past its lifetime is removed
\* (meteors past their lifetime lead to none being so), so that in the end
\* every meteor spawned has been removed unless wall time has stopped, or the
\* simulation has stayed paused, before its lifetime has passed.
C21_MeteorRemoved ==
  /\ [](\A i \in 1..Len(meteors) :
          /\ meteors[i].lifetime <= 2500
          /\ MeteorObj(meteors[i].id) \in scene
          /\ uTime - meteors[i].birth <= meteors[i].lifetime)
  /\ [](\A o \in scene : o[1] = "meteor" => o[2] \in Ids(meteors))
  /\ [][ FrameStep => Overdue' = {} ]_vars
  /\ (Overdue # {}) ~> (Overdue = {})
  /\ <>[](ExpiryClockAtEnd /\ Overdue = {})

\* C21 witness: a meteor that was in flight across a pause has been removed
\* from the active set and from the scene, while a later one is still active
C21_Witness ==
  /\ lifecycle = "live"
  /\ ~paused
  /\ pausedTime > 0
  /\ startTime > LoadTime
  /\ MeteorMat(1) \in DOMAIN gpu
  /\ ~Active(1)
  /\ MeteorObj(1) \notin scene
  /\ meteors # <<>>
  /\ meteors[1].birth < pausedTime

\* C22: while the simulation stays paused pausedTime keeps the value captured
\* by togglePause, and every frame reads exactly it; so with a spawn delay that
\* is not negative (now, and when nextMeteorDelay was last drawn) a paused
\* frame that follows a frame at the same effective time spawns nothing, culls
\* nothing and leaves the meteors, lastMeteorSpawn and nextMeteorDelay as they
\* are: the only spawn and the only cull of a paused interval are in its first
\* frame, which spawns at most one meteor.
C22_PausedFramesIdle ==
  [][ /\ (paused /\ paused') => pausedTime' = pausedTime
      /\ (FrameStep /\ paused) =>
           /\ uTime' = pausedTime
           /\ Spawned' - Spawned \in {0, 1}
      /\ (FrameStep /\ paused /\ uTime = pausedTime
            /\ spawnDelay >= 0 /\ nextMeteorDelay >= 0) =>
           /\ Spawned' = Spawned
           /\ Culled' = Culled
           /\ UNCHANGED <<meteors, lastMeteorSpawn, nextMeteorDelay, scene, gpu, uTime>> ]_vars

\* C22 witness: with the spawn delay at 0, the first frame of a paused interval
\* spawned a meteor (not moved since) and an earlier meteor has expired; a
\* later frame of the same interval has run and nothing has changed
C22_Witness ==
  /\ lifecycle = "live"
  /\ paused
  /\ spawnDelay = 0
  /\ nextMeteorDelay = 0
  /\ uTime = pausedTime
  /\ lastMeteorSpawn = pausedTime
  /\ now - startTime > pausedTime
  /\ lastFrameTimeMs = now
  /\ ~vsync
  /\ rafRun = <<>>
  /\ Culled # {}
  /\ meteors # <<>>
  /\ meteors[Len(meteors)].birth = pausedTime
  /\ meteors[Len(meteors)].moved = 0

====
